---------------------------- MODULE Spec2Model ----------------------------
(***************************************************************************)
(* A model of the edalize plug-ins of this repository:                     *)
(*   - Flist._generate_file_list  (src/src/edalize/tools/flist.py)         *)
(*   - Flist / Xcelium setup and write_config_files                        *)
(*   - the Depcheck flow          (src/src/edalize/flows/depcheck.py)      *)
(*                                                                         *)
(* Strings are sequences of tokens, so that str.startswith and string      *)
(* concatenation are computed (prefix of a sequence, \o) and not assumed:  *)
(*   "vhdlSource-2008"  is  <<"vhdlSource", "-2008">>                       *)
(*   "cppSource"        is  <<"cpp", "Source">>                             *)
(*   name + ".f"        is  name \o <<".f">>                                *)
(* A file name is a path, a sequence of components <<dir, base>>.          *)
(***************************************************************************)
EXTENDS Naturals, Sequences, FiniteSets

VARIABLES
    \* ---- Flist._generate_file_list ----
    files,        \* argument `files`: the list of file records
    file_types,   \* argument `file_types`: the ordered list of type prefixes
    idx,          \* position of the `for f in files` loop (next file to treat)
    result,       \* the FileList being built
    log,          \* records emitted on the module logger, in order
    dest,         \* history: for each treated file, the branch the loop took
    \* ---- the Depcheck flow ----
    frontends,    \* flow option "frontends"
    tool,         \* flow option "tool"
    edam_name,    \* edam["name"], the self.name of every adapter
    simulator,    \* Flist tool option "simulator" ("none" when absent)
    pc,           \* position of the flow: configure_flow, configure_tools, ...
    flow,         \* the dict `flow` built by configure_flow
    graph,        \* the FlowGraph made of it (no node while there is none)
    cfgIdx,       \* next node configure_tools sets up
    insts,        \* node id -> what the node's adapter set in setup()
    setups,       \* ids of the nodes whose setup() has run, in order
    flowDefault,  \* default target of the flow's commands (None when unset)
    error,        \* the exception that ended configuration ("none" if none)
    wrIdx,        \* next node whose write_config_files runs
    written,      \* the files written by write_config_files, in order
    outcome,      \* what happened to the build driver in build()
    stdout,       \* the lines build() printed
    exitStatus,   \* <<status>> once the process has exited, <<>> before
    \* ---- the pipeline Flist -> Xcelium: setup() and the build driver ----
    s_pc,         \* next step of the pipeline: flist, xcelium, build
    flist_inst,   \* what Flist.setup left: f, edam["files"], commands
    xcelium_inst, \* what Xcelium.setup left: f_list, edam["files"], commands
    built         \* the rule targets the build driver has made so far

clsVars == <<files, file_types, idx, result, log, dest>>

flowVars == <<frontends, tool, edam_name, simulator, pc, flow, graph, cfgIdx, insts,
              setups, flowDefault, error, wrIdx, written, outcome, stdout,
              exitStatus>>

setupVars == <<s_pc, flist_inst, xcelium_inst, built>>

vars == <<clsVars, flowVars, setupVars>>

\* ------------------------------------------------------------------ bounds
MaxFiles == 2
MaxTypes == 2
MaxFrontends == 2

\* ------------------------------------------------------------- generalities
Range(s) == {s[i] : i \in 1..Len(s)}

SeqUpTo(S, n) == UNION {[1..k -> S] : k \in 0..n}

\* [x for x in s if P(x)] restricted to the positions of s, in order
Positions(s) == [i \in 1..Len(s) |-> i]

\* ------------------------------------------------------------- type tags
SystemVerilogSource == <<"systemVerilogSource">>
VerilogSource == <<"verilogSource">>
VhdlSource == <<"vhdlSource">>
VhdlSource2008 == <<"vhdlSource", "-2008">>
VhdlSource93 == <<"vhdlSource", "-93">>
Vlt == <<"vlt">>
CppSource == <<"cpp", "Source">>
Cpp == <<"cpp">>

\* Flist._RTL_SOURCE_TYPES
RTL_SOURCE_TYPES ==
    <<SystemVerilogSource, VerilogSource, VhdlSource, VhdlSource2008, VhdlSource93>>

\* str.startswith(prefix)
StartsWith(s, prefix) ==
    /\ Len(prefix) <= Len(s)
    /\ SubSeq(s, 1, Len(prefix)) = prefix

\* ------------------------------------------------------------- inputs
\* file records the resolver can hand over: a name (path), a type tag, and
\* the is_include_file flag
FileNames == {<<"rtl", "a">>, <<"tb", "b">>}
FileTags == {VhdlSource2008, Vlt, CppSource}
FileUniverse ==
    [name : FileNames, file_type : FileTags, is_include_file : BOOLEAN]

\* entries a user can put in the file_types tool option; "cpp" is a prefix of
\* "cppSource" that flist does not support
PrefixUniverse == {VhdlSource, VhdlSource2008, Vlt, CppSource, Cpp}

\* ------------------------------------------------------------- FileList
EmptyFileList ==
    [incdirs |-> <<>>, rtl_files |-> <<>>, vlt_files |-> <<>>,
     cpp_incdirs |-> <<>>, cpp_files |-> <<>>, depfiles |-> <<>>,
     unused_files |-> <<>>]

\* ------------------------------------------------ _generate_file_list
\* matches = [idx for idx, prefix in enumerate(file_types)
\*            if file_type.startswith(prefix)]
Matches(file_type, fts) ==
    SelectSeq(Positions(fts), LAMBDA i : StartsWith(file_type, fts[i]))

\* faulty variant: the last match is taken instead of the first
MatchedType_Last(matches, fts) == fts[matches[Len(matches)]]

\* matched_type = file_types[matches[0]]
MatchedType(matches, fts) == fts[matches[1]]

\* os.path.dirname(f["name"])
Dirname(name) == SubSeq(name, 1, Len(name) - 1)

\* Edatool._add_include_dir(f, incdirs): for a record flagged is_include_file
\* the directory of the file is added to incdirs unless already there, and the
\* call returns True; otherwise incdirs is left alone and it returns False.
AddIncludeDir(f, incdirs) ==
    IF "is_include_file" \in DOMAIN f /\ f.is_include_file
    THEN [hit |-> TRUE,
          incdirs |-> IF Dirname(f.name) \in Range(incdirs)
                      THEN incdirs
                      ELSE Append(incdirs, Dirname(f.name))]
    ELSE [hit |-> FALSE, incdirs |-> incdirs]

\* faulty variant: the file is put in front of rtl_files
PlaceRtl_Prepend(res, f) ==
    LET a == AddIncludeDir(f, res.incdirs) IN
    IF a.hit THEN [res EXCEPT !.incdirs = a.incdirs]
    ELSE [res EXCEPT !.rtl_files = <<f.name>> \o @]

\* case rtl if rtl in self._RTL_SOURCE_TYPES
PlaceRtl(res, f) ==
    LET a == AddIncludeDir(f, res.incdirs) IN
    IF a.hit THEN [res EXCEPT !.incdirs = a.incdirs]
    ELSE [res EXCEPT !.rtl_files = Append(@, f.name)]

\* case "vlt"
PlaceVlt(res, f) == [res EXCEPT !.vlt_files = Append(@, f.name)]

\* case "cppSource"
PlaceCpp(res, f) ==
    LET a == AddIncludeDir(f, res.cpp_incdirs) IN
    IF a.hit THEN [res EXCEPT !.cpp_incdirs = a.incdirs]
    ELSE [res EXCEPT !.cpp_files = Append(@, f.name)]

\* faulty variant: an unsupported file is handed on as unused
PlaceUnsupported_AsUnused(res, f) == [res EXCEPT !.unused_files = Append(@, f)]

\* case _: only logger.error, nothing is appended
PlaceUnsupported(res, f) == res

\* faulty variant: an unmatched file is forgotten
PlaceUnused_Dropped(res, f) == res

\* else: result.unused_files.append(f)
PlaceUnused(res, f) == [res EXCEPT !.unused_files = Append(@, f)]

\* the branch of the loop body a file takes
Branch(f, fts) ==
    LET matches == Matches(f.file_type, fts) IN
    IF matches = <<>> THEN "unused"
    ELSE LET matched_type == MatchedType(matches, fts) IN
         IF matched_type \in Range(RTL_SOURCE_TYPES)
         THEN (IF AddIncludeDir(f, <<>>).hit THEN "incdirs" ELSE "rtl_files")
         ELSE IF matched_type = Vlt THEN "vlt_files"
         ELSE IF matched_type = CppSource
         THEN (IF AddIncludeDir(f, <<>>).hit THEN "cpp_incdirs" ELSE "cpp_files")
         ELSE "unsupported"

\* one pass of the loop body on FileList res
Classify(res, f, fts) ==
    LET b == Branch(f, fts)
        placed ==
            IF b = "unused" THEN PlaceUnused(res, f)
            ELSE IF b \in {"incdirs", "rtl_files"} THEN PlaceRtl(res, f)
            ELSE IF b = "vlt_files" THEN PlaceVlt(res, f)
            ELSE IF b \in {"cpp_incdirs", "cpp_files"} THEN PlaceCpp(res, f)
            ELSE PlaceUnsupported(res, f)
        \* depfile = True, set False only in the else branch
        depfile == b # "unused"
    IN  IF depfile
        THEN [placed EXCEPT !.depfiles = Append(@, f.name)]
        ELSE placed

\* what the loop body logs for file number i
LogEvents(f, fts, i) ==
    LET matches == Matches(f.file_type, fts) IN
    (IF Len(matches) > 1
     THEN <<[level |-> "warning", file |-> i,
             chosen |-> MatchedType(matches, fts)]>>
     ELSE <<>>)
    \o
    (IF Branch(f, fts) = "unsupported"
     THEN <<[level |-> "error", file |-> i,
             chosen |-> MatchedType(matches, fts)]>>
     ELSE <<>>)

\* ------------------------------------------------------------------------
\* The Depcheck flow
\* ------------------------------------------------------------------------
None == <<"None">>

\* the exit status of a process that has not exited
NoExit == <<>>

\* a Python dict: its keys in insertion order and the value of each
EmptyDict == [keys |-> <<>>, val |-> [k \in {} |-> None]]

\* d[k] = v: a new key goes last, an existing key keeps its place
DictSet(d, k, v) ==
    [keys |-> IF k \in Range(d.keys) THEN d.keys ELSE Append(d.keys, k),
     val |-> [x \in (DOMAIN d.val) \cup {k} |-> IF x = k THEN v ELSE d.val[x]]]

NoInsts == [k \in {} |-> None]

\* the tool ids with an adapter module: flist and xcelium are this
\* repository's, vivado is edalize's own
ToolIds == {"flist", "xcelium", "vivado"}

ProjectNames == {<<"core">>, <<"top">>}

\* the keys of Flist._SIM_PREFIXES
SIM_PREFIXES == {"verilator", "xcelium", "modelsim", "questa"}

\* values of the Flist "simulator" option: absent, supported, unsupported
Simulators == {"none", "xcelium", "icarus"}

\* the work root the flow hands to every adapter
WorkRoot == "work_root"

RECURSIVE AddFrontends(_, _, _)
\* for frontend in flow_options.get("frontends", []):
\*     flow[frontend] = {"deps": deps}; deps = [frontend]
AddFrontends(d, deps, fes) ==
    IF fes = <<>> THEN [flow |-> d, deps |-> deps]
    ELSE AddFrontends(DictSet(d, Head(fes), [deps |-> deps]),
                      <<Head(fes)>>, Tail(fes))

\* the dict configure_flow hands to FlowGraph.fromdict
ConfigureFlowDict(fes, elab_tool) ==
    LET a == AddFrontends(EmptyDict, <<>>, fes) IN
    DictSet(a.flow, elab_tool, [deps |-> a.deps, fdto |-> EmptyDict])

\* every dependency of a node is declared before the node
DeclaredEarlier(d) ==
    \A i \in 1..Len(d.keys) :
        \A dep \in Range(d.val[d.keys[i]].deps) :
            \E j \in 1..(i - 1) : d.keys[j] = dep

\* FlowGraph.fromdict: whether the graph is built. A dict whose dependencies
\* are all declared earlier is accepted; for one that is not, rejection and
\* acceptance are both possible outcomes.
FromDictAccepts(d) == IF DeclaredEarlier(d) THEN {TRUE} ELSE BOOLEAN

\* Flist.setup: the rule target and default target are self.name + ".f"
FlistSetup(nm) ==
    [tool |-> "flist", work_root |-> WorkRoot,
     targets |-> <<nm \o <<".f">>>>, default_target |-> nm \o <<".f">>]

\* Xcelium.setup: the rule target and default target are self.name
XceliumSetup(nm) ==
    [tool |-> "xcelium", work_root |-> WorkRoot,
     targets |-> <<nm>>, default_target |-> nm]

\* the setup of an adapter that is not this repository's
ExternalSetup(id) ==
    [tool |-> id, work_root |-> WorkRoot,
     targets |-> <<>>, default_target |-> None]

AdapterSetup(id, nm) ==
    IF id = "flist" THEN FlistSetup(nm)
    ELSE IF id = "xcelium" THEN XceliumSetup(nm)
    ELSE ExternalSetup(id)

\* Flist.setup: simulator defaults to verilator, then
\* assert simulator in self._SIM_PREFIXES
FlistSimulatorOk(sim) ==
    (IF sim = "none" THEN "verilator" ELSE sim) \in SIM_PREFIXES

\* Flist.write_config_files: update_config_file(self.name + ".f", ...)
FlistConfigFile(nm) == nm \o <<".f">>

\* Xcelium.write_config_files: update_config_file(self.name + ".f", ...)
XceliumConfigFile(nm) == nm \o <<".f">>

\* the path update_config_file writes: the file name under the work root
ConfigPath(work_root, file) == <<work_root, file>>

\* faulty variant: the default target of the first node is taken
DefaultTargetOf_FirstNode(g, t, ins) == ins[g.keys[1]].default_target

\* graph.get_node(tool).inst.commands.default_target
DefaultTargetOf(g, t, ins) == ins[t].default_target

\* the outcomes of running the build driver
DriverOutcomes == {"ok", "failed", "not_invocable"}

\* Edaflow._run_tool("make", ...): returns when make ran and succeeded, raises
\* RuntimeError when make ran and failed and when make could not be started
RunTool(o) == IF o = "ok" THEN "returns" ELSE "RuntimeError"

Incorrect(nm) == <<"Dependencies incorrectly specified for core">> \o nm

Correct == <<"All dependencies correctly specified!">>

\* faulty variant: the except branch lacks exit(0) and falls through
BuildResult_NoExit(raised, nm) ==
    IF raised = "RuntimeError"
    THEN [stdout |-> <<Incorrect(nm), Correct>>, pc |-> "built", exit |-> NoExit]
    ELSE [stdout |-> <<Correct>>, pc |-> "built", exit |-> NoExit]

\* Depcheck.build, from what _run_tool did
BuildResult(raised, nm) ==
    IF raised = "RuntimeError"
    THEN [stdout |-> <<Incorrect(nm)>>, pc |-> "exited", exit |-> <<0>>]
    ELSE [stdout |-> <<Correct>>, pc |-> "built", exit |-> NoExit]

\* the flow before Depcheck is constructed
FlowIdle ==
    /\ frontends = <<>>
    /\ tool = "xcelium"
    /\ edam_name = <<"core">>
    /\ simulator = "none"
    /\ pc = "idle"
    /\ flow = EmptyDict
    /\ graph = EmptyDict
    /\ cfgIdx = 1
    /\ insts = NoInsts
    /\ setups = <<>>
    /\ flowDefault = None
    /\ error = "none"
    /\ wrIdx = 1
    /\ written = <<>>
    /\ outcome = "none"
    /\ stdout = <<>>
    /\ exitStatus = NoExit

\* an adapter whose setup() has not run
NoSetup == [f |-> <<>>, files |-> <<>>, commands |-> <<>>, default_target |-> None]

\* the pipeline before any setup()
SetupIdle ==
    /\ s_pc = "idle"
    /\ flist_inst = NoSetup
    /\ xcelium_inst = NoSetup
    /\ built = {}

Init ==
    /\ files \in SeqUpTo(FileUniverse, MaxFiles)
    /\ file_types \in SeqUpTo(PrefixUniverse, MaxTypes)
    /\ idx = 1
    /\ result = EmptyFileList
    /\ log = <<>>
    /\ dest = <<>>
    /\ FlowIdle
    /\ SetupIdle

\* one iteration of `for f in files`
ClassifyStep ==
    /\ idx <= Len(files)
    /\ result' = Classify(result, files[idx], file_types)
    /\ log' = log \o LogEvents(files[idx], file_types, idx)
    /\ dest' = Append(dest, Branch(files[idx], file_types))
    /\ idx' = idx + 1
    /\ UNCHANGED <<files, file_types>>
    /\ UNCHANGED flowVars
    /\ UNCHANGED setupVars

Next == ClassifyStep

Spec == Init /\ [][Next]_vars

\* ------------------------------------------------------------------------
\* The Depcheck flow, from construction to build()
\* ------------------------------------------------------------------------
FlowInit ==
    /\ frontends \in SeqUpTo(ToolIds, MaxFrontends)
    /\ tool \in ToolIds
    /\ edam_name \in ProjectNames
    /\ simulator \in Simulators
    /\ pc = "configure_flow"
    /\ flow = EmptyDict
    /\ graph = EmptyDict
    /\ cfgIdx = 1
    /\ insts = NoInsts
    /\ setups = <<>>
    /\ flowDefault = None
    /\ error = "none"
    /\ wrIdx = 1
    /\ written = <<>>
    /\ outcome = "none"
    /\ stdout = <<>>
    /\ exitStatus = NoExit
    /\ files = <<>>
    /\ file_types = <<>>
    /\ idx = 1
    /\ result = EmptyFileList
    /\ log = <<>>
    /\ dest = <<>>
    /\ SetupIdle

\* Depcheck.configure_flow
ConfigureFlow ==
    /\ pc = "configure_flow"
    /\ flow' = ConfigureFlowDict(frontends, tool)
    /\ \E accepted \in FromDictAccepts(ConfigureFlowDict(frontends, tool)) :
          IF accepted
          THEN /\ graph' = ConfigureFlowDict(frontends, tool)
               /\ pc' = "configure_tools"
               /\ error' = error
          ELSE /\ graph' = EmptyDict
               /\ pc' = "error"
               /\ error' = "FlowGraphError"
    /\ UNCHANGED <<frontends, tool, edam_name, simulator, cfgIdx, insts, setups,
                   flowDefault, wrIdx, written, outcome, stdout, exitStatus>>
    /\ UNCHANGED clsVars
    /\ UNCHANGED setupVars

\* Depcheck.configure_tools, super().configure_tools(graph): one node, in
\* declaration order, is instantiated and set up
SetupNode ==
    /\ pc = "configure_tools"
    /\ cfgIdx <= Len(graph.keys)
    /\ LET id == graph.keys[cfgIdx] IN
       IF id = "flist" /\ ~FlistSimulatorOk(simulator)
       THEN /\ pc' = "error"
            /\ error' = "AssertionError"
            /\ UNCHANGED <<cfgIdx, insts, setups>>
       ELSE /\ insts' = [x \in (DOMAIN insts) \cup {id} |->
                            IF x = id THEN AdapterSetup(id, edam_name) ELSE insts[x]]
            /\ setups' = Append(setups, id)
            /\ cfgIdx' = cfgIdx + 1
            /\ UNCHANGED <<pc, error>>
    /\ UNCHANGED <<frontends, tool, edam_name, simulator, flow, graph,
                   flowDefault, wrIdx, written, outcome, stdout, exitStatus>>
    /\ UNCHANGED clsVars
    /\ UNCHANGED setupVars

\* faulty variant: the tool option is not checked
SelectDefaultTarget_NoCheck ==
    /\ pc = "configure_tools"
    /\ cfgIdx > Len(graph.keys)
    /\ flowDefault' = DefaultTargetOf(graph, tool, insts)
    /\ pc' = "configured"
    /\ error' = error
    /\ UNCHANGED <<frontends, tool, edam_name, simulator, flow, graph, cfgIdx,
                   insts, setups, wrIdx, written, outcome, stdout, exitStatus>>
    /\ UNCHANGED clsVars
    /\ UNCHANGED setupVars

\* Depcheck.configure_tools after super().configure_tools(graph): the check
\* of the tool option and the flow's default target
SelectDefaultTarget ==
    /\ pc = "configure_tools"
    /\ cfgIdx > Len(graph.keys)
    /\ IF tool = "xcelium"
       THEN /\ flowDefault' = DefaultTargetOf(graph, tool, insts)
            /\ pc' = "configured"
            /\ error' = error
       ELSE IF tool = "vivado"
       THEN /\ pc' = "error"
            /\ error' = "NotImplementedError"
            /\ flowDefault' = flowDefault
       ELSE /\ pc' = "error"
            /\ error' = "ValueError"
            /\ flowDefault' = flowDefault
    /\ UNCHANGED <<frontends, tool, edam_name, simulator, flow, graph, cfgIdx,
                   insts, setups, wrIdx, written, outcome, stdout, exitStatus>>
    /\ UNCHANGED clsVars
    /\ UNCHANGED setupVars

\* the files a node's write_config_files writes (those of an adapter that is
\* not this repository's are not followed)
ConfigWrites(id, inst, nm) ==
    IF id = "flist"
    THEN <<[stage |-> id, path |-> ConfigPath(inst.work_root, FlistConfigFile(nm))]>>
    ELSE IF id = "xcelium"
    THEN <<[stage |-> id, path |-> ConfigPath(inst.work_root, XceliumConfigFile(nm))]>>
    ELSE <<>>

\* configure(): write_config_files of one node, in pipeline order
WriteConfigFiles ==
    /\ pc = "configured"
    /\ wrIdx <= Len(graph.keys)
    /\ written' = written \o
          ConfigWrites(graph.keys[wrIdx], insts[graph.keys[wrIdx]], edam_name)
    /\ wrIdx' = wrIdx + 1
    /\ UNCHANGED <<frontends, tool, edam_name, simulator, pc, flow, graph, cfgIdx,
                   insts, setups, flowDefault, error, outcome, stdout, exitStatus>>
    /\ UNCHANGED clsVars
    /\ UNCHANGED setupVars

\* Depcheck.build
Build ==
    /\ pc = "configured"
    /\ wrIdx > Len(graph.keys)
    /\ \E o \in DriverOutcomes :
          /\ outcome' = o
          /\ stdout' = stdout \o BuildResult(RunTool(o), edam_name).stdout
          /\ pc' = BuildResult(RunTool(o), edam_name).pc
          /\ exitStatus' = BuildResult(RunTool(o), edam_name).exit
    /\ UNCHANGED <<frontends, tool, edam_name, simulator, flow, graph, cfgIdx,
                   insts, setups, flowDefault, error, wrIdx, written>>
    /\ UNCHANGED clsVars
    /\ UNCHANGED setupVars

FlowNext ==
    \/ ConfigureFlow
    \/ SetupNode
    \/ SelectDefaultTarget
    \/ WriteConfigFiles
    \/ Build

FlowSpec == FlowInit /\ [][FlowNext]_vars

\* ------------------------------------------------------------------------
\* The pipeline Flist -> Xcelium: setup() of both adapters, then the build
\* ------------------------------------------------------------------------
\* absolute_path / _absolute_path: the path under the work root
AbsPath(path) == <<WorkRoot>> \o path

RECURSIVE GenerateFileList(_, _, _)
\* _generate_file_list(files, file_types): the loop run from result res
GenerateFileList(res, fs, fts) ==
    IF fs = <<>> THEN res
    ELSE GenerateFileList(Classify(res, Head(fs), fts), Tail(fs), fts)

RECURSIVE GenerateLog(_, _, _)
\* what _generate_file_list logs, file number i being the first of fs
GenerateLog(fs, fts, i) ==
    IF fs = <<>> THEN <<>>
    ELSE LogEvents(Head(fs), fts, i) \o GenerateLog(Tail(fs), fts, i + 1)

\* faulty variant: the generated record is not tagged as a Verilog source
FlistOutputRecord_Untyped(nm) == [name |-> nm \o <<".f">>, file_type |-> <<"flist">>]

\* Flist.setup: the record of the generated <name>.f
FlistOutputRecord(nm) == [name |-> nm \o <<".f">>, file_type |-> VerilogSource]

\* Flist.setup: the lines of the .f file (no defines or parameters are given)
FlistLines(file_list) ==
    [k \in 1..Len(file_list.incdirs) |->
        [kind |-> "+incdir+", path |-> AbsPath(file_list.incdirs[k])]]
    \o [k \in 1..Len(file_list.cpp_incdirs) |->
        [kind |-> "-I", path |-> AbsPath(file_list.cpp_incdirs[k])]]
    \o [k \in 1..Len(file_list.vlt_files \o file_list.rtl_files) |->
        [kind |-> "file", path |-> AbsPath((file_list.vlt_files \o file_list.rtl_files)[k])]]

\* Flist.setup from the FileList on: self.f, self.edam["files"], self.commands
FlistInstance(file_list, nm) ==
    [f |-> FlistLines(file_list),
     files |-> Append(file_list.unused_files, FlistOutputRecord(nm)),
     commands |-> <<[recipe |-> <<>>,
                     targets |-> <<nm \o <<".f">>>>,
                     sources |-> file_list.depfiles]>>,
     default_target |-> nm \o <<".f">>]

\* str.endswith(suffix)
EndsWith(str, suffix) ==
    /\ Len(suffix) <= Len(str)
    /\ SubSeq(str, Len(str) - Len(suffix) + 1, Len(str)) = suffix

\* Xcelium.setup: cmd for a file type (None when the type is not a source)
XceliumCmd(file_type) ==
    IF StartsWith(file_type, VerilogSource) \/ StartsWith(file_type, SystemVerilogSource)
    THEN <<"xmvlog">>
    ELSE IF StartsWith(file_type, VhdlSource) THEN <<"xmvhdl">>
    ELSE None

\* Xcelium.setup: args for a file type (no xmvlog_options / xmvhdl_options)
XceliumArgs(file_type) ==
    IF XceliumCmd(file_type) = <<"xmvlog">>
    THEN (IF StartsWith(file_type, SystemVerilogSource) THEN <<"-sv">> ELSE <<>>)
    ELSE IF XceliumCmd(file_type) = <<"xmvhdl">>
    THEN (IF EndsWith(file_type, <<"-93">>) THEN <<"-v93">>
          ELSE IF EndsWith(file_type, <<"-2008">>) THEN <<"-v200x">>
          ELSE <<>>)
    ELSE <<>>

\* Xcelium.setup: the locals before the loop `for f in self.files`
XceliumLoopStart ==
    [f_list |-> <<>>, incdirs |-> <<>>, depfiles |-> <<>>, unused_files |-> <<>>]

\* Xcelium.setup: one pass of the loop body; unused_files is never appended to
XceliumLoopBody(acc, f) ==
    LET cmd == XceliumCmd(f.file_type)
        depfile == cmd # None
        line == [kind |-> "-makelib", lib |-> "worklib",
                 args |-> XceliumArgs(f.file_type), path |-> AbsPath(f.name)]
        a == AddIncludeDir(f, acc.incdirs)
    IN  [depfiles |-> IF depfile THEN Append(acc.depfiles, f.name) ELSE acc.depfiles,
         incdirs |-> IF cmd # None THEN a.incdirs ELSE acc.incdirs,
         f_list |-> IF cmd # None /\ ~a.hit THEN Append(acc.f_list, line)
                    ELSE acc.f_list,
         unused_files |-> acc.unused_files]

RECURSIVE XceliumLoop(_, _)
XceliumLoop(acc, fs) ==
    IF fs = <<>> THEN acc
    ELSE XceliumLoop(XceliumLoopBody(acc, Head(fs)), Tail(fs))

\* Xcelium.setup: the record of the generated <name>.f
XceliumOutputRecord(nm) == [name |-> nm \o <<".f">>, file_type |-> VerilogSource]

\* Xcelium.setup on the manifest fs: self.f_list, self.edam["files"],
\* self.commands
XceliumInstance(fs, nm) ==
    LET l == XceliumLoop(XceliumLoopStart, fs) IN
    [f |-> l.f_list \o [k \in 1..Len(l.incdirs) |->
                          [kind |-> "+incdir+", path |-> AbsPath(l.incdirs[k])]],
     files |-> Append(l.unused_files, XceliumOutputRecord(nm)),
     commands |-> <<[recipe |-> <<"xrun", "-q", "-elaborate", "-f", nm \o <<".f">>>>,
                     targets |-> <<nm>>,
                     sources |-> l.depfiles]>>,
     default_target |-> nm]

SetupInit ==
    /\ files \in SeqUpTo(FileUniverse, MaxFiles)
    \* the file_types option, or its default when the option is absent
    /\ file_types \in SeqUpTo(PrefixUniverse, MaxTypes) \cup {RTL_SOURCE_TYPES}
    /\ edam_name \in ProjectNames
    /\ s_pc = "flist"
    /\ flist_inst = NoSetup
    /\ xcelium_inst = NoSetup
    /\ built = {}
    /\ idx = 1
    /\ result = EmptyFileList
    /\ log = <<>>
    /\ dest = <<>>
    /\ frontends = <<"flist">>
    /\ tool = "xcelium"
    /\ simulator = "none"
    /\ pc = "idle"
    /\ flow = EmptyDict
    /\ graph = EmptyDict
    /\ cfgIdx = 1
    /\ insts = NoInsts
    /\ setups = <<>>
    /\ flowDefault = None
    /\ error = "none"
    /\ wrIdx = 1
    /\ written = <<>>
    /\ outcome = "none"
    /\ stdout = <<>>
    /\ exitStatus = NoExit

pipelineFrame == <<frontends, tool, edam_name, simulator, pc, flow, graph, cfgIdx,
                   insts, setups, flowDefault, error, wrIdx, written, outcome,
                   stdout, exitStatus, files, file_types>>

\* Flist.setup(edam) on the flow's manifest
FlistSetupStep ==
    /\ s_pc = "flist"
    /\ result' = GenerateFileList(EmptyFileList, files, file_types)
    /\ log' = log \o GenerateLog(files, file_types, 1)
    /\ dest' = [i \in 1..Len(files) |-> Branch(files[i], file_types)]
    /\ idx' = Len(files) + 1
    /\ flist_inst' = FlistInstance(
                        GenerateFileList(EmptyFileList, files, file_types), edam_name)
    /\ s_pc' = "xcelium"
    /\ UNCHANGED <<xcelium_inst, built>>
    /\ UNCHANGED pipelineFrame

\* Xcelium.setup(edam) on the manifest the Flist stage emitted
XceliumSetupStep ==
    /\ s_pc = "xcelium"
    /\ xcelium_inst' = XceliumInstance(flist_inst.files, edam_name)
    /\ s_pc' = "build"
    /\ UNCHANGED <<flist_inst, built, idx, result, log, dest>>
    /\ UNCHANGED pipelineFrame

\* the rules handed to the build driver
MergedCommands == flist_inst.commands \o xcelium_inst.commands

AllTargets == UNION {Range(MergedCommands[k].targets) : k \in 1..Len(MergedCommands)}

\* a rule the driver may run: not made yet, and each of its sources that some
\* rule makes has been made
RuleReady(rule) ==
    /\ ~(Range(rule.targets) \subseteq built)
    /\ (Range(rule.sources) \cap AllTargets) \subseteq built

\* the build driver runs the recipe of one ready rule
RunRule ==
    /\ s_pc = "build"
    /\ \E k \in 1..Len(MergedCommands) :
          /\ RuleReady(MergedCommands[k])
          /\ built' = built \cup Range(MergedCommands[k].targets)
    /\ UNCHANGED <<s_pc, flist_inst, xcelium_inst, idx, result, log, dest>>
    /\ UNCHANGED pipelineFrame

SetupNext ==
    \/ FlistSetupStep
    \/ XceliumSetupStep
    \/ RunRule

SetupSpec == SetupInit /\ [][SetupNext]_vars

\* ------------------------------------------------------------------------
\* Properties of _generate_file_list
\* ------------------------------------------------------------------------
\* p is a string prefix of s (stated without StartsWith)
IsPrefix(p, s) == \E k \in 0..Len(s) : p = SubSeq(s, 1, k)

\* indices of the file_types entries that are a prefix of file i's type
MatchSet(i) ==
    {j \in 1..Len(file_types) : IsPrefix(file_types[j], files[i].file_type)}

MinOf(S) == CHOOSE m \in S : \A n \in S : m <= n

\* the category in which the loop dispatches a matched file_types entry
CategoryOfEntry(t) ==
    IF \E k \in 1..Len(RTL_SOURCE_TYPES) : RTL_SOURCE_TYPES[k] = t THEN "rtl"
    ELSE IF t = Vlt THEN "vlt"
    ELSE IF t = CppSource THEN "cpp"
    ELSE "unsupported"

\* the category of file i: that of its first matching entry
KindOf(i) ==
    IF MatchSet(i) = {} THEN "unused"
    ELSE CategoryOfEntry(file_types[MinOf(MatchSet(i))])

BranchesOf(category) ==
    IF category = "rtl" THEN {"rtl_files", "incdirs"}
    ELSE IF category = "vlt" THEN {"vlt_files"}
    ELSE IF category = "cpp" THEN {"cpp_files", "cpp_incdirs"}
    ELSE IF category = "unsupported" THEN {"unsupported"}
    ELSE {"unused"}

Treated == 1..(idx - 1)

LoopDone == idx = Len(files) + 1

GroupTotal(res) ==
    Len(res.rtl_files) + Len(res.incdirs) + Len(res.vlt_files)
    + Len(res.cpp_files) + Len(res.cpp_incdirs) + Len(res.unused_files)

\* include-file records of a category among the treated files, and their
\* distinct directories
IncludeRecords(category) ==
    {i \in Treated : KindOf(i) = category /\ files[i].is_include_file}

IncludeDirs(category) == {Dirname(files[i].name) : i \in IncludeRecords(category)}

UnsupportedRecords == {i \in Treated : KindOf(i) = "unsupported"}

\* C1 (as stated): when the loop is done, the sizes of rtl_files, incdirs,
\* vlt_files, cpp_files, cpp_incdirs and unused_files sum to the number of
\* input files.
C1_NoFileLoss == LoopDone => GroupTotal(result) = Len(files)

\* C1 (amended): the six sizes sum to the number of files treated, less the
\* files whose first matching entry is an unsupported type (they land in no
\* group) and less the include-file records whose directory is already listed
\* (incdirs and cpp_incdirs hold each directory once).
C1_FileAccounting ==
    GroupTotal(result) + Cardinality(UnsupportedRecords)
        + Cardinality(IncludeRecords("rtl")) + Cardinality(IncludeRecords("cpp"))
    = (idx - 1) + Cardinality(IncludeDirs("rtl")) + Cardinality(IncludeDirs("cpp"))

C1_Witness ==
    /\ LoopDone
    /\ Len(files) >= 2
    /\ UnsupportedRecords # {}
    /\ GroupTotal(result) = Len(files) - 1

\* the entries of s, in order, whose position satisfies Keep
Pick(s, Keep(_)) ==
    LET pos == SelectSeq(Positions(s), Keep) IN [k \in 1..Len(pos) |-> s[pos[k]]]

\* s without the repetitions of an earlier entry
FirstOccurrences(s) == Pick(s, LAMBDA i : \A j \in 1..(i - 1) : s[j] # s[i])

TreatedFiles == SubSeq(files, 1, idx - 1)

\* the treated files that took branch b, in input order
TookBranch(b) == Pick(TreatedFiles, LAMBDA i : dest[i] = b)

NamesOf(fs) == [k \in 1..Len(fs) |-> fs[k].name]

DirsOf(fs) == [k \in 1..Len(fs) |-> Dirname(fs[k].name)]

\* C2: every output group lists its entries in the order of the input files
\* that produced them: each group is the projection of the input list on the
\* files that took the group's branch (a directory being listed at its first
\* include file).
C2_StablePartition ==
    /\ result.rtl_files = NamesOf(TookBranch("rtl_files"))
    /\ result.vlt_files = NamesOf(TookBranch("vlt_files"))
    /\ result.cpp_files = NamesOf(TookBranch("cpp_files"))
    /\ result.incdirs = FirstOccurrences(DirsOf(TookBranch("incdirs")))
    /\ result.cpp_incdirs = FirstOccurrences(DirsOf(TookBranch("cpp_incdirs")))
    /\ result.depfiles = NamesOf(Pick(TreatedFiles, LAMBDA i : dest[i] # "unused"))
    /\ result.unused_files = TookBranch("unused")

C2_Witness ==
    /\ LoopDone
    /\ Len(result.rtl_files) >= 2
    /\ result.rtl_files[1] # result.rtl_files[2]
    /\ Len(result.depfiles) >= 2

WarningsFor(i) ==
    {k \in 1..Len(log) : log[k].level = "warning" /\ log[k].file = i}

\* C3: a file whose type has several file_types entries as a prefix is
\* classified by the category of the matching entry of smallest index, with
\* exactly one ambiguity warning (naming that entry); a file with exactly one
\* matching entry gets no warning.
C3_TieBreak ==
    \A i \in Treated :
        /\ Cardinality(MatchSet(i)) > 1 =>
              /\ dest[i] \in BranchesOf(CategoryOfEntry(file_types[MinOf(MatchSet(i))]))
              /\ Cardinality(WarningsFor(i)) = 1
              /\ \A k \in WarningsFor(i) :
                    log[k].chosen = file_types[MinOf(MatchSet(i))]
        /\ Cardinality(MatchSet(i)) = 1 => WarningsFor(i) = {}

\* a treated file matched by two entries of different categories, the second
\* of which is the supported one
C3_Witness ==
    \E i \in Treated :
        /\ Cardinality(MatchSet(i)) = 2
        /\ \E j, k \in MatchSet(i) :
              /\ j < k
              /\ CategoryOfEntry(file_types[j]) = "unsupported"
              /\ CategoryOfEntry(file_types[k]) = "cpp"
        /\ Cardinality(WarningsFor(i)) = 1
        /\ dest[i] = "unsupported"

ErrorsFor(i) ==
    {k \in 1..Len(log) : log[k].level = "error" /\ log[k].file = i}

\* C4: treating a file whose first matching entry is neither an RTL source
\* type nor "vlt" nor "cppSource" appends nothing to rtl_files, vlt_files,
\* cpp_files, incdirs, cpp_incdirs or unused_files, logs one error, appends the
\* file's name to depfiles, and goes on to the next file.
C4_UnsupportedType ==
    [][ (idx <= Len(files) /\ KindOf(idx) = "unsupported") =>
          /\ result'.rtl_files = result.rtl_files
          /\ result'.vlt_files = result.vlt_files
          /\ result'.cpp_files = result.cpp_files
          /\ result'.incdirs = result.incdirs
          /\ result'.cpp_incdirs = result.cpp_incdirs
          /\ result'.unused_files = result.unused_files
          /\ result'.depfiles = Append(result.depfiles, files[idx].name)
          /\ Len(log') >= 1
          /\ log'[Len(log')].level = "error"
          /\ log'[Len(log')].file = idx
          /\ idx' = idx + 1
      ]_vars

\* an unsupported file was treated and the file after it was classified
C4_Witness ==
    /\ LoopDone
    /\ Len(files) >= 2
    /\ KindOf(1) = "unsupported"
    /\ ErrorsFor(1) # {}
    /\ result.depfiles[1] = files[1].name
    /\ KindOf(2) \in {"rtl", "vlt", "cpp"}
    /\ Len(result.depfiles) = 2

\* ------------------------------------------------------------------------
\* Properties of the Depcheck flow
\* ------------------------------------------------------------------------
Stages == frontends \o <<tool>>

\* the nodes no node depends on
Sinks(d) ==
    {k \in Range(d.keys) : \A n \in Range(d.keys) : k \notin Range(d.val[n].deps)}

FlowBuilt == pc # "configure_flow"

\* C5: configure_flow builds a linear pipeline for every frontends list and
\* tool: one node per listed stage, the first without deps, every later one
\* depending on exactly the stage before it, and the tool node the only sink.
C5_LinearPipeline ==
    FlowBuilt =>
        /\ flow.keys = Stages
        /\ \A i \in 1..Len(flow.keys) :
              /\ flow.keys[i] \in DOMAIN flow.val
              /\ flow.val[flow.keys[i]].deps =
                    (IF i = 1 THEN <<>> ELSE <<flow.keys[i - 1]>>)
        /\ Sinks(flow) = {tool}

ConfigureDone == pc \in {"configured", "built", "exited"}

\* C6: once configure_tools has completed without raising, the flow's default
\* target is the default target of the tool node's adapter, which for xcelium
\* is the rule target self.name, whatever frontends precede it.
C6_DefaultTarget ==
    ConfigureDone =>
        /\ tool \in DOMAIN insts
        /\ flowDefault = insts[tool].default_target
        /\ flowDefault = edam_name
        /\ flowDefault \in Range(insts[tool].targets)

C6_Witness ==
    /\ pc = "configured"
    /\ Len(graph.keys) >= 2
    /\ graph.keys[1] = "flist"
    /\ flowDefault = edam_name

ToolErrors == {"NotImplementedError", "ValueError"}

\* C7 (as stated): a configuration that ends in the unimplemented / invalid
\* tool error has built no flow graph, set up no stage and written no file.
C7_FatalBeforeSetup ==
    error \in ToolErrors =>
        /\ graph = EmptyDict
        /\ setups = <<>>
        /\ written = <<>>

\* C7 (amended): no tool other than xcelium gets through configure_tools; the
\* error for it (NotImplementedError for vivado, ValueError otherwise) is
\* raised after the graph is built and every stage is set up, and before any
\* config file is written and before the build driver runs.
C7_FatalBeforeWrite ==
    /\ ConfigureDone => tool = "xcelium"
    /\ error \in ToolErrors =>
          /\ tool # "xcelium"
          /\ (error = "NotImplementedError") <=> (tool = "vivado")
          /\ graph # EmptyDict
          /\ setups = graph.keys
          /\ flowDefault = None
          /\ written = <<>>
          /\ outcome = "none"
          /\ stdout = <<>>
          /\ exitStatus = NoExit

C7_Witness ==
    /\ error = "NotImplementedError"
    /\ tool = "vivado"
    /\ setups = <<"flist", "vivado">>
    /\ written = <<>>

\* C8: a build driver that cannot be invoked is not reported as the
\* "Dependencies incorrectly specified" result with exit status 0.
C8_DriverFailureDistinguished ==
    outcome = "not_invocable" =>
        /\ ~(pc = "exited" /\ exitStatus = <<0>>)
        /\ Incorrect(edam_name) \notin Range(stdout)

\* C9: when the build runs and fails, build() prints the incorrect-dependency
\* message for the core, never the success message, and the process exits
\* with status 0; when the build succeeds it prints only the success message
\* and returns.
C9_BuildOutcome ==
    /\ outcome = "failed" =>
          /\ stdout = <<Incorrect(edam_name)>>
          /\ pc = "exited"
          /\ exitStatus = <<0>>
    /\ outcome = "ok" =>
          /\ stdout = <<Correct>>
          /\ pc = "built"
          /\ exitStatus = NoExit

C9_Witness ==
    /\ outcome = "failed"
    /\ pc = "exited"
    /\ Len(stdout) = 1

\* C10: no two config files written in one configure have the same path, so
\* no stage overwrites the file of an earlier stage.
C10_DistinctOutputPaths ==
    \A i, j \in 1..Len(written) :
        i # j => written[i].path # written[j].path

\* ------------------------------------------------------------------------
\* Properties of the pipeline Flist -> Xcelium
\* ------------------------------------------------------------------------
\* the type prefixes Xcelium.setup treats as sources
XceliumTypes == {VerilogSource, SystemVerilogSource, VhdlSource}

\* the records of fs, in order, whose type has none of prefixes as a prefix
Unmatched(fs, prefixes) ==
    Pick(fs, LAMBDA i : \A p \in prefixes : ~IsPrefix(p, fs[i].file_type))

GeneratedRecord == [name |-> edam_name \o <<".f">>, file_type |-> VerilogSource]

FlistSetupDone == s_pc \in {"xcelium", "build"}

XceliumSetupDone == s_pc = "build"

\* the Flist half of C11: the manifest Flist.setup emits is the unmatched
\* input records, unchanged and in order, then the generated <name>.f record
FlistPassesUnused ==
    FlistSetupDone =>
        flist_inst.files = Append(Unmatched(files, Range(file_types)), GeneratedRecord)

\* C11: after setup() of either adapter the emitted manifest is the input
\* records that matched none of the adapter's file types, unchanged and in
\* input order, followed by the generated <name>.f record.
C11_UnusedPassThrough ==
    /\ FlistPassesUnused
    /\ XceliumSetupDone =>
          xcelium_inst.files =
              Append(Unmatched(flist_inst.files, XceliumTypes), GeneratedRecord)

FlistTarget == edam_name \o <<".f">>

\* C12: in the pipeline Flist -> Xcelium, the Flist rule has the single target
\* <name>.f, which is among the sources of the Xcelium rule; the Xcelium rule's
\* target is the default target <name>, distinct from <name>.f; and a build
\* driver that honours sources has made <name>.f whenever it has run xrun.
C12_DependencyEdge ==
    XceliumSetupDone =>
        /\ Len(flist_inst.commands) = 1
        /\ flist_inst.commands[1].targets = <<FlistTarget>>
        /\ Len(xcelium_inst.commands) = 1
        /\ xcelium_inst.commands[1].targets = <<xcelium_inst.default_target>>
        /\ xcelium_inst.default_target = edam_name
        /\ FlistTarget \in Range(xcelium_inst.commands[1].sources)
        /\ Range(flist_inst.commands[1].targets)
              \cap Range(xcelium_inst.commands[1].targets) = {}
        /\ edam_name \in built => FlistTarget \in built

\* both rules have run, the Flist stage having handed on an unmatched source
\* file next to its own <name>.f
C12_Witness ==
    /\ XceliumSetupDone
    /\ built = {FlistTarget, edam_name}
    /\ Len(flist_inst.files) >= 2
    /\ Len(xcelium_inst.commands[1].sources) >= 2
    /\ Len(flist_inst.commands[1].sources) >= 1

=============================================================================
